---- MODULE Spec2Model ----
(***************************************************************************)
(* Model of hyperglass/command/execute.py: the Rest and Netmiko executors, *)
(* Execute.parse and Execute.response.  One request is followed from the   *)
(* validator call to the value (or exception) response() produces; Spec    *)
(* runs it alone, LoopSpec next to a second request on the same event      *)
(* loop, ParseSpec applies parse on its own.                               *)
(*                                                                         *)
(* Text is a sequence of chunks.  A chunk is either one of the literal     *)
(* strings the code searches for (the two AFI delimiters, the two prompt   *)
(* substrings) or a piece of text that contains none of them; string       *)
(* concatenation is sequence concatenation.  Neither delimiter overlaps    *)
(* itself or the other one, so the decomposition of a string is unique.    *)
(***************************************************************************)
EXTENDS Integers, Sequences, FiniteSets, TLC

\* ------------------------------------------------------------------ bounds
MaxTextLen  == 2    \* chunks in a device / HTTP response text (Spec)
MaxChanLen  == 2    \* chunks returned by one read_channel()
MaxParseLen == 6    \* chunks in the raw text handed to parse (ParseSpec)

\* -------------------------------------------------------- literal strings
delimiter_ios   == "For address family: "
delimiter_xr    == "Address Family: "
key_warning     == "Are you sure you want to continue connecting"
password_prompt == "assword"
NL              == "\n"

\* params.messages.general, code.valid, code.invalid
messages_general == <<"messages.general">>
code_valid       == "valid"
code_invalid     == "invalid"

\* ------------------------------------------------------------- text sets
RECURSIVE SeqsUpTo(_, _)
SeqsUpTo(S, n) ==
    IF n = 0 THEN {<<>>}
    ELSE LET shorter == SeqsUpTo(S, n - 1)
         IN  shorter \cup {Append(s, c) : s \in {t \in shorter : Len(t) = n - 1}, c \in S}

TextChunks == {delimiter_ios, delimiter_xr, "x"}
ChanChunks == {key_warning, password_prompt, "$"}

Texts      == SeqsUpTo(TextChunks, MaxTextLen)
ParseTexts == SeqsUpTo(TextChunks, MaxParseLen)
ChanTexts  == SeqsUpTo(ChanChunks, MaxChanLen)

Contains(text, chunk) == \E i \in 1..Len(text) : text[i] = chunk

\* ------------------------------------------------------- configuration
QueryTypes == {"bgp_route", "bgp_community", "bgp_aspath", "ping"}

RestNos   == {"frr", "bird"}
ScrapeNos == {"cisco_ios", "cisco_xr", "juniper"}
AllNos    == RestNos \cup ScrapeNos \cup {"unsupported_nos"}

NoProxy == "None"
Proxies == {"proxy1"}

\* hyperglass.configuration.devices
Devices == [nos : AllNos, proxy : Proxies \cup {NoProxy}]

\* hyperglass.configuration.proxies / credentials
device_proxy    == [nos |-> "linux_ssh", password |-> "proxy_secret",
                    ssh_command |-> <<"ssh ", "{username}", "@", "{host}">>]
device_username == "device_username"
device_password == "device_secret"

\* str.format(**kwargs): every placeholder is replaced by the keyword's value
format(template, kwargs) ==
    [i \in 1..Len(template) |->
        IF template[i] = "{host}" THEN kwargs.host
        ELSE IF template[i] = "{device_type}" THEN kwargs.device_type
        ELSE IF template[i] = "{username}" THEN kwargs.username
        ELSE IF template[i] = "{password}" THEN kwargs.password
        ELSE template[i]]

\* the strings a text is made of
Atoms(text) == {text[i] : i \in 1..Len(text)}

\* Supported.is_rest / Supported.is_scrape
is_rest(nos)   == nos \in RestNos
is_scrape(nos) == nos \in ScrapeNos

\* Construct(device).<query_type>(transport, target)
Construct(dev, query_type, transport) ==
    [location |-> "device.address", nos |-> dev.nos, command |-> <<"command", query_type>>]

\* Validate(device).<query_type>(target): (validity, msg, status)
ValidateOutcomes ==
    {<<TRUE, <<"msg.ok">>, code_valid>>}
    \cup {<<FALSE, m, code_invalid>> : m \in {<<"msg.invalid">>, <<"msg.blacklist">>}}

\* ------------------------------------------------------------ exceptions
Http3Caught ==
    {"ConnectTimeout", "CookieConflict", "DecodingError", "InvalidURL",
     "PoolTimeout", "ProtocolError", "ReadTimeout", "RedirectBodyUnavailable",
     "RedirectLoop", "ResponseClosed", "ResponseNotRead", "StreamConsumed",
     "Timeout", "TooManyRedirects", "WriteTimeout"}

NetmikoCaught ==
    {"NetMikoAuthenticationException", "NetMikoTimeoutException",
     "NetmikoAuthError", "NetmikoTimeoutError"}

\* an exception type that no except clause of the module names
OtherError == "OSError"

HttpStatuses == {"200", "404", "500"}

\* what the device-side HTTP agent does with a POST
NoNet == [kind |-> "none", text |-> <<>>, status |-> "none", exc |-> "none"]
HttpOutcomes ==
    {[kind |-> "response", text |-> t, status |-> s, exc |-> "none"] :
        t \in Texts, s \in HttpStatuses}
    \cup {[kind |-> "raise", text |-> <<>>, status |-> "none", exc |-> e] :
        e \in Http3Caught \cup {OtherError}}

\* --------------------------------------------- results of a call
Pending            == [kind |-> "pending", text |-> <<>>, status |-> "none", exc |-> "none"]
Returned(t, s)     == [kind |-> "return", text |-> t, status |-> s, exc |-> "none"]
Raised(e)          == [kind |-> "raise", text |-> <<>>, status |-> "none", exc |-> e]

\* one call made to a collaborator: what, with which argument (or, for a
\* read, with which result), and the exception it raised ("none": it came back)
Call(op, arg, raised) == [op |-> op, arg |-> arg, raised |-> raised, result |-> <<>>]

\* a call that came back with a text
CallR(op, arg, result) == [op |-> op, arg |-> arg, raised |-> "none", result |-> result]

\* ------------------------------------------------------------ Execute.parse
\* str.split(delimiter): the pieces between the occurrences of the delimiter,
\* scanned left to right; always at least one piece
RECURSIVE split(_, _)
split(s, d) ==
    IF Contains(s, d)
    THEN LET i == CHOOSE k \in 1..Len(s) : s[k] = d /\ \A j \in 1..(k - 1) : s[j] # d
         IN  <<SubSeq(s, 1, i - 1)>> \o split(SubSeq(s, i + 1, Len(s)), d)
    ELSE <<s>>

\* lines 267: the query types whose output is cut down to the AFI blocks
applies_any(input_type) == TRUE
applies(input_type) == input_type \in {"bgp_community", "bgp_aspath"}

\* lines 271-274 and 278-281; Python's [1] and [2] are the 2nd and 3rd piece,
\* and an index past the last piece raises IndexError
parse_afi_from_first(output, delimiter) ==
    LET pieces == split(output, delimiter)
    IN  IF Len(pieces) < 3 THEN Raised("IndexError")
        ELSE Returned(<<delimiter>> \o pieces[1] \o <<delimiter>> \o pieces[2], "none")
parse_afi(output, delimiter) ==
    LET pieces == split(output, delimiter)
    IN  IF Len(pieces) < 2 THEN Raised("IndexError")
        ELSE IF Len(pieces) < 3 THEN Raised("IndexError")
        ELSE Returned(<<delimiter>> \o pieces[2] \o <<delimiter>> \o pieces[3], "none")

\* lines 259-282
parse(input_type, output, nos) ==
    IF applies(input_type)
    THEN IF nos \in {"cisco_ios"} THEN parse_afi(output, delimiter_ios)
         ELSE IF nos \in {"cisco_xr"} THEN parse_afi(output, delimiter_xr)
         ELSE Returned(output, "none")
    ELSE Returned(output, "none")

\* ------------------------------------------------------------------ state
VARIABLES
    input_type,     \* Execute.input_type
    device,         \* device_config, line 289
    net,            \* what the device-side HTTP agent answers to a POST
    pc,             \* position inside response() and the executor it runs
    validity,       \* validator verdict, line 295
    msg,            \* validator message, line 295
    status,         \* local `status` of response()
    raw_output,     \* local `raw_output` of response()
    proxy_output,   \* local `proxy_output` of proxied()
    exec_ret,       \* what the executor method returned or raised
    ret,            \* what response() returned or raised
    trace,          \* the calls made so far, in order
    log,            \* the strings written to the log so far
    other           \* a second, REST request on the same event loop

vars == <<input_type, device, net, pc, validity, msg, status, raw_output, proxy_output,
          exec_ret, ret, trace, log, other>>

request == <<input_type, device, net>>

\* Netmiko.__init__, lines 157-163
nm_host ==
    [host        |-> Construct(device, input_type, "scrape").location,
     device_type |-> Construct(device, input_type, "scrape").nos,
     username    |-> device_username,
     password    |-> device_password]

command == Construct(device, input_type, "scrape").command

InitRequest ==
    /\ input_type \in QueryTypes
    /\ device \in Devices
    /\ net \in IF is_rest(device.nos) THEN HttpOutcomes ELSE {NoNet}
    /\ pc = "validate"
    /\ validity = FALSE
    /\ msg = <<>>
    /\ status = "none"
    /\ raw_output = <<>>
    /\ proxy_output = <<>>
    /\ exec_ret = Pending
    /\ ret = Pending
    /\ trace = <<>>
    /\ log = {}

\* one request alone on the event loop
Init ==
    /\ InitRequest
    /\ other = "none"

\* ------------------------------------------------------- Execute.response
\* line 298
short_circuit_never(verdict) == FALSE
short_circuit(verdict) == ~verdict

\* lines 295-300
Validate ==
    /\ pc = "validate"
    /\ \E o \in ValidateOutcomes :
        /\ trace' = Append(trace, Call("Validate", <<input_type>>, "none"))
        /\ validity' = o[1]
        /\ msg' = o[2]
        /\ status' = o[3]
        /\ IF short_circuit(o[1])
           THEN ret' = Returned(o[2], o[3]) /\ pc' = "done"
           ELSE ret' = ret /\ pc' = "select"
    /\ UNCHANGED <<request, other, log, raw_output, proxy_output, exec_ret>>

\* lines 306-320: the executor object is built (its constructor calls the
\* command builder) and the method to run is picked; lines 301-302 and 325
\* when the NOS is in neither set
Select ==
    /\ pc = "select"
    /\ IF is_rest(device.nos)
       THEN /\ trace' = trace \o <<Call("Rest", <<"rest">>, "none"),
                                   Call("Construct", <<"rest">>, "none")>>
            /\ pc' = device.nos
            /\ UNCHANGED ret
       ELSE IF is_scrape(device.nos)
       THEN /\ trace' = trace \o <<Call("Netmiko", <<"scrape">>, "none"),
                                   Call("Construct", <<"scrape">>, "none")>>
            /\ pc' = IF device.proxy # NoProxy THEN "proxied" ELSE "direct"
            /\ UNCHANGED ret
       ELSE /\ ret' = Returned(messages_general, status)
            /\ pc' = "done"
            /\ UNCHANGED trace
    /\ UNCHANGED <<request, other, log, validity, msg, status, raw_output, proxy_output, exec_ret>>

\* an exception leaves the executor and, response() having no handler,
\* response() as well
Propagate(e) ==
    /\ exec_ret' = Raised(e)
    /\ ret' = Raised(e)
    /\ pc' = "done"
    /\ UNCHANGED <<raw_output, status>>

\* the executor hands (response, status) back to lines 308 / 317 / 319
Hand_skips_parse(text, st) ==
    /\ exec_ret' = Returned(text, st)
    /\ raw_output' = text
    /\ status' = st
    /\ ret' = Returned(text, st)
    /\ pc' = "done"
Hand(text, st) ==
    /\ exec_ret' = Returned(text, st)
    /\ raw_output' = text
    /\ status' = st
    /\ pc' = "parse"
    /\ UNCHANGED ret

\* ------------------------------------------------------------------- Rest
\* lines 54-57 and 62, 104-107 and 112: what the "HTTP Headers" debug line
\* writes, the header dict holding cred.password.get_secret_value()
logged_headers(password) == {"Content-Type", "application/json", "X-API-Key", password}

\* lines 50-66: the headers are logged, the POST is sent and the coroutine
\* is suspended at the await of line 66
frr ==
    /\ pc = "frr"
    /\ log' = log \cup logged_headers(device_password)
    /\ pc' = "frr_await"
    /\ UNCHANGED <<request, other, validity, msg, status, raw_output, proxy_output,
                   exec_ret, ret, trace>>

\* lines 66-96: the awaited POST completes, the text and the status are read
\* off the response; the except clause of lines 74-95
frr_resume ==
    /\ pc = "frr_await"
    /\ IF net.kind = "response"
       THEN /\ trace' = trace \o <<Call("post", <<"frr">>, "none"),
                                   CallR("response.text", <<"frr">>, net.text)>>
            /\ Hand(net.text, net.status)
            /\ UNCHANGED log
       ELSE IF net.exc \in Http3Caught
       THEN /\ trace' = Append(trace, Call("post", <<"frr">>, net.exc))
            /\ Hand(messages_general, code_invalid)
            /\ log' = log \cup {net.exc}
       ELSE /\ trace' = Append(trace, Call("post", <<"frr">>, net.exc))
            /\ Propagate(net.exc)
            /\ UNCHANGED log
    /\ UNCHANGED <<request, other, validity, msg, proxy_output>>

\* lines 98-144: post() is an async method called without await, so line 116
\* binds a coroutine object and no request is sent; line 119 reads .text of
\* the coroutine, which raises AttributeError, a type lines 124-140 do not
\* name
bird ==
    /\ pc = "bird"
    /\ log' = log \cup logged_headers(device_password)
    /\ trace' = trace \o <<Call("post_not_awaited", <<"bird">>, "none"),
                           Call("response.text", <<"bird">>, "AttributeError")>>
    /\ Propagate("AttributeError")
    /\ UNCHANGED <<request, other, validity, msg, proxy_output>>

\* ---------------------------------------------------------------- Netmiko
\* the exception types a netmiko call is taken to be able to raise
Raisable == NetmikoCaught \cup {OtherError}

\* the except clauses of lines 177-185 and 233-242
Except_retries(e) ==
    IF e \in NetmikoCaught /\ Len(trace) < 10
    THEN log' = log \cup {e} /\ UNCHANGED <<pc, raw_output, status, exec_ret, ret>>
    ELSE IF e \in NetmikoCaught
    THEN Hand(messages_general, code_invalid) /\ log' = log \cup {e}
    ELSE Propagate(e) /\ UNCHANGED log
Except_keeps_valid(e) ==
    IF e \in NetmikoCaught
    THEN Hand(messages_general, code_valid) /\ log' = log \cup {e}
    ELSE Propagate(e) /\ UNCHANGED log
Except(e) ==
    IF e \in NetmikoCaught
    THEN Hand(messages_general, code_invalid) /\ log' = log \cup {e}
    ELSE Propagate(e) /\ UNCHANGED log

\* a call inside one of the try blocks: it comes back and the method goes on
\* at `next`, or it raises
Try(op, arg, next) ==
    \/ /\ trace' = Append(trace, Call(op, arg, "none"))
       /\ pc' = next
       /\ UNCHANGED <<raw_output, status, exec_ret, ret, log>>
    \/ \E e \in Raisable :
        /\ trace' = Append(trace, Call(op, arg, e))
        /\ Except(e)

\* line 173
direct_connect ==
    /\ pc = "direct"
    /\ Try("ConnectHandler", <<nm_host.device_type>>, "direct_send")
    /\ UNCHANGED <<request, other, validity, msg, proxy_output>>

\* lines 174-175 and 186
direct_send ==
    /\ pc = "direct_send"
    /\ \/ \E response \in Texts :
            /\ trace' = Append(trace, CallR("send_command", command, response))
            /\ Hand(response, code_valid)
            /\ UNCHANGED log
       \/ \E e \in Raisable :
            /\ trace' = Append(trace, Call("send_command", command, e))
            /\ Except(e)
    /\ UNCHANGED <<request, other, validity, msg, proxy_output>>

\* line 201: the session to the proxy is opened before the try of line 213
proxied_connect ==
    /\ pc = "proxied"
    /\ \/ /\ trace' = Append(trace, Call("ConnectHandler", <<device_proxy.nos>>, "none"))
          /\ pc' = "proxied_jump"
          /\ UNCHANGED <<raw_output, status, exec_ret, ret>>
       \/ \E e \in Raisable :
            /\ trace' = Append(trace, Call("ConnectHandler", <<device_proxy.nos>>, e))
            /\ Propagate(e)
    /\ UNCHANGED log
    /\ UNCHANGED <<request, other, validity, msg, proxy_output>>

\* line 202
nm_ssh_command == format(device_proxy.ssh_command, nm_host) \o <<NL>>

\* lines 202-207: the rendered jump command is logged, then written
proxied_jump ==
    /\ pc = "proxied_jump"
    /\ log' = log \cup Atoms(nm_ssh_command)
    /\ trace' = Append(trace, Call("write_channel", nm_ssh_command, "none"))
    /\ pc' = "proxied_settle"
    /\ UNCHANGED <<request, other, validity, msg, status, raw_output, proxy_output, exec_ret, ret>>

\* lines 215 and 220: which branch the text read from the channel selects
classify_password_first(text) ==
    IF Contains(text, password_prompt) THEN "password"
    ELSE IF Contains(text, key_warning) THEN "key_warning"
    ELSE "authenticated"
classify(text) ==
    IF Contains(text, key_warning) THEN "key_warning"
    ELSE IF Contains(text, password_prompt) THEN "password"
    ELSE "authenticated"

\* where the try block of line 213 starts for a given branch
branch_pc(branch) ==
    IF branch = "key_warning" THEN "key_yes"
    ELSE IF branch = "password" THEN "password_secret"
    ELSE "redispatch"

\* lines 208-209, and the test of lines 215 / 220 on what was read
proxied_settle ==
    /\ pc = "proxied_settle"
    /\ \E text \in ChanTexts :
        /\ trace' = trace \o <<Call("sleep", <<"1">>, "none"),
                               Call("read_channel", text, "none")>>
        /\ proxy_output' = text
        /\ pc' = branch_pc(classify(text))
    /\ UNCHANGED <<request, other, log, validity, msg, status, raw_output, exec_ret, ret>>

\* lines 217-218: the two writes of the key-warning branch, in order
key_warning_writes_swapped(password) == <<<<password, NL>>, <<"yes", NL>>>>
key_warning_writes(password) == <<<<"yes", NL>>, <<password, NL>>>>

\* line 217
key_yes ==
    /\ pc = "key_yes"
    /\ Try("write_channel", key_warning_writes(nm_host.password)[1], "key_secret")
    /\ UNCHANGED <<request, other, validity, msg, proxy_output>>

\* line 218
key_secret ==
    /\ pc = "key_secret"
    /\ Try("write_channel", key_warning_writes(nm_host.password)[2], "redispatch")
    /\ UNCHANGED <<request, other, validity, msg, proxy_output>>

\* line 222
password_secret ==
    /\ pc = "password_secret"
    /\ Try("write_channel", <<nm_host.password, NL>>, "password_read")
    /\ UNCHANGED <<request, other, validity, msg, proxy_output>>

\* line 223: proxy_output += read_channel()
read_more_replaces(output, more) == more
read_more(output, more) == output \o more

\* line 223
password_read ==
    /\ pc = "password_read"
    /\ \/ \E more \in ChanTexts :
            /\ trace' = Append(trace, Call("read_channel", more, "none"))
            /\ proxy_output' = read_more(proxy_output, more)
            /\ pc' = "redispatch"
            /\ UNCHANGED <<raw_output, status, exec_ret, ret, log>>
       \/ \E e \in Raisable :
            /\ trace' = Append(trace, Call("read_channel", <<>>, e))
            /\ Except(e)
            /\ UNCHANGED proxy_output
    /\ UNCHANGED <<request, other, validity, msg>>

\* line 228: the device class the session is reclassified as
redispatch_type_of_proxy(host, proxy) == proxy.nos
redispatch_type(host, proxy) == host.device_type

\* line 228
redispatch ==
    /\ pc = "redispatch"
    /\ Try("redispatch", <<redispatch_type(nm_host, device_proxy)>>, "proxied_send")
    /\ UNCHANGED <<request, other, validity, msg, proxy_output>>

\* lines 229-230 and 243
proxied_send ==
    /\ pc = "proxied_send"
    /\ \/ \E response \in Texts :
            /\ trace' = Append(trace, CallR("send_command", command, response))
            /\ Hand(response, code_valid)
            /\ UNCHANGED log
       \/ \E e \in Raisable :
            /\ trace' = Append(trace, Call("send_command", command, e))
            /\ Except(e)
    /\ UNCHANGED <<request, other, validity, msg, proxy_output>>

\* ------------------------------------------- Execute.response, the tail
\* lines 309 / 320 and 325: the executor's text goes through parse; what
\* parse raises leaves response()
Parse ==
    /\ pc = "parse"
    /\ trace' = Append(trace, Call("parse", raw_output, parse(input_type, raw_output, device.nos).exc))
    /\ ret' = LET parsed == parse(input_type, raw_output, device.nos)
              IN  IF parsed.kind = "return" THEN Returned(parsed.text, status)
                  ELSE Raised(parsed.exc)
    /\ pc' = "done"
    /\ UNCHANGED <<request, other, log, validity, msg, status, raw_output, proxy_output, exec_ret>>

Next ==
    \/ Validate
    \/ Select
    \/ frr
    \/ frr_resume
    \/ bird
    \/ direct_connect
    \/ direct_send
    \/ proxied_connect
    \/ proxied_jump
    \/ proxied_settle
    \/ key_yes
    \/ key_secret
    \/ password_secret
    \/ password_read
    \/ redispatch
    \/ proxied_send
    \/ Parse

Spec == Init /\ [][Next]_vars

\* ---------------------------------------------- parse on its own
\* parse() applied to any text, for any query type and NOS
InitParse ==
    /\ input_type \in QueryTypes
    /\ device \in Devices
    /\ net = NoNet
    /\ pc = "parse"
    /\ validity = TRUE
    /\ msg = <<>>
    /\ status = code_valid
    /\ raw_output \in ParseTexts
    /\ proxy_output = <<>>
    /\ exec_ret = Returned(raw_output, status)
    /\ ret = Pending
    /\ trace = <<>>
    /\ log = {}
    /\ other = "none"

NextParse == Parse

ParseSpec == InitParse /\ [][NextParse]_vars

\* ------------------------------ two requests on one event loop
\* response() is a coroutine: it keeps the thread of the event loop from the
\* moment it is started until it is suspended at an await or is over.  Its
\* only await is the one of line 308, which suspends it only inside frr
\* (line 66); direct() and proxied() are plain calls (lines 317 and 319).
LoopFree == pc \in {"validate", "frr_await", "done"}

\* the other request is a REST one: its coroutine is started and runs up to
\* the await of its POST
other_start ==
    /\ other = "ready"
    /\ LoopFree
    /\ other' = "awaiting"
    /\ UNCHANGED <<request, pc, validity, msg, status, raw_output, proxy_output,
                   exec_ret, ret, trace, log>>

\* the answer to the other request's POST is in and its coroutine is resumed
other_resume ==
    /\ other = "awaiting"
    /\ LoopFree
    /\ other' = "done"
    /\ UNCHANGED <<request, pc, validity, msg, status, raw_output, proxy_output,
                   exec_ret, ret, trace, log>>

InitLoop ==
    /\ InitRequest
    /\ other = "ready"

NextLoop ==
    \/ Next
    \/ other_start
    \/ other_resume

LoopSpec == InitLoop /\ [][NextLoop]_vars

\* ================================================================ properties
\* the request runs the proxied executor (lines 316-317)
ProxiedPath == is_scrape(device.nos) /\ device.proxy # NoProxy

\* the calls that name a given operation
CallsOf(op) == {i \in 1..Len(trace) : trace[i].op = op}

Min(S) == CHOOSE x \in S : \A y \in S : x <= y

\* the read of line 209 and what the executor did after it
HasRead        == CallsOf("read_channel") # {}
FirstRead      == Min(CallsOf("read_channel"))
FirstText      == trace[FirstRead].arg
AfterFirstRead == SubSeq(trace, FirstRead + 1, Len(trace))

\* parse has been applied and response() is over
Parsed == pc = "done" /\ Len(trace) > 0 /\ trace[Len(trace)].op = "parse"

\* the delimiter table of the normalizer, and the pairs it applies to
DelimiterTable == [cisco_ios |-> delimiter_ios, cisco_xr |-> delimiter_xr]
Applicable ==
    /\ input_type \in {"bgp_community", "bgp_aspath"}
    /\ device.nos \in DOMAIN DelimiterTable
Occurrences(text, d) == {i \in 1..Len(text) : text[i] = d}
RawOccurrences == Occurrences(raw_output, DelimiterTable[device.nos])

\* delimiter + (text between the 1st and 2nd delimiter) + delimiter + (text
\* between the 2nd delimiter and the 3rd, or the end)
TwoSections(text, d) ==
    LET occ    == Occurrences(text, d)
        first  == Min(occ)
        second == Min(occ \ {first})
        rest   == occ \ {first, second}
        stop   == IF rest = {} THEN Len(text) ELSE Min(rest) - 1
    IN  <<d>> \o SubSeq(text, first + 1, second - 1)
              \o <<d>> \o SubSeq(text, second + 1, stop)

\* C1: once the validator has reported the request invalid, response() is
\* over, it has returned the validator's (message, status) pair, and the only
\* call made is the one to the validator: no executor was built or run, no
\* command was built and parse was not applied.
C1_InvalidShortCircuits ==
    (pc # "validate" /\ ~validity) =>
        /\ pc = "done"
        /\ ret = Returned(msg, status)
        /\ msg \in {<<"msg.invalid">>, <<"msg.blacklist">>}
        /\ status = code_invalid
        /\ exec_ret = Pending
        /\ Len(trace) = 1
        /\ trace[1].op = "Validate"

C1_Witness ==
    /\ pc = "done"
    /\ ~validity
    /\ ret = Returned(<<"msg.blacklist">>, code_invalid)

\* C2: when the device-side agent fails the POST with one of the enumerated
\* transport exceptions, the REST executor (frr or bird) has, once it is
\* over, returned (general message, invalid) and has not raised.
C2_RestNeverPropagates ==
    (/\ is_rest(device.nos)
     /\ net.kind = "raise"
     /\ net.exc \in Http3Caught
     /\ exec_ret # Pending)
        => exec_ret = Returned(messages_general, code_invalid)

\* C3: in the proxy traversal, an authentication or timeout exception raised
\* by the opening of the bastion session (step 1), by a write or read of the
\* prompt negotiation (step 4) or by the query command (step 6) ends
\* proxied() with (general message, invalid), never with the exception.
C3_ProxiedCatches ==
    (/\ ProxiedPath
     /\ \E i \in 1..Len(trace) :
            /\ trace[i].op \in {"ConnectHandler", "write_channel",
                                "read_channel", "send_command"}
            /\ trace[i].raised \in NetmikoCaught)
        => exec_ret = Returned(messages_general, code_invalid)

\* C4: when the text read after the jump command contains the host-key
\* warning, the first call after the read is the write of "yes\n", the next
\* one the write of the target secret and a newline, the redispatch is the
\* third, and no read_channel is made after the first read.
C4_KeyWarningWrites ==
    (HasRead /\ Contains(FirstText, key_warning)) =>
        LET after == AfterFirstRead
        IN  /\ Len(after) >= 1 =>
                /\ after[1].op = "write_channel"
                /\ after[1].arg = <<"yes", NL>>
            /\ (Len(after) >= 2 /\ after[1].raised = "none") =>
                /\ after[2].op = "write_channel"
                /\ after[2].arg = <<device_password, NL>>
            /\ \A k \in 1..Len(after) :
                /\ after[k].op = "redispatch" => k = 3
                /\ after[k].op # "read_channel"

C4_Witness ==
    /\ HasRead
    /\ Contains(FirstText, key_warning)
    /\ pc = "proxied_send"

\* C5: when the text read after the jump command contains "assword" and not
\* the host-key warning, the first call after the read is the one write of
\* the secret and a newline, the second is the one further read, whose
\* result is appended to proxy_output, and the redispatch is the third.
C5_PasswordPrompt ==
    (/\ HasRead
     /\ Contains(FirstText, password_prompt)
     /\ ~Contains(FirstText, key_warning)) =>
        LET after == AfterFirstRead
        IN  /\ Len(after) >= 1 =>
                /\ after[1].op = "write_channel"
                /\ after[1].arg = <<device_password, NL>>
            /\ (Len(after) >= 2 /\ after[1].raised = "none") =>
                /\ after[2].op = "read_channel"
                /\ after[2].raised = "none" =>
                        proxy_output = FirstText \o after[2].arg
            /\ \A k \in 1..Len(after) :
                /\ after[k].op = "redispatch" => k = 3
                /\ after[k].op = "write_channel" => k = 1
                /\ after[k].op = "read_channel" => k = 2

C5_Witness ==
    /\ HasRead
    /\ Contains(FirstText, password_prompt)
    /\ ~Contains(FirstText, key_warning)
    /\ pc = "proxied_send"
    /\ Len(proxy_output) > Len(FirstText)

\* C6: in the proxy traversal the query command is only ever sent right
\* after a redispatch that came back, the redispatch names the target
\* device's NOS and not the bastion's, and every write to and read from the
\* channel happens before the redispatch.
C6_RedispatchBeforeQuery ==
    ProxiedPath =>
        \A i \in CallsOf("send_command") :
            /\ i > 1
            /\ trace[i - 1] = Call("redispatch", <<device.nos>>, "none")
            /\ trace[i - 1].arg # <<device_proxy.nos>>
            /\ \A j \in (i - 1)..Len(trace) :
                    trace[j].op \notin {"write_channel", "read_channel"}

C6_Witness ==
    /\ ProxiedPath
    /\ \E i \in CallsOf("send_command") : trace[i].raised = "none"

\* C7: for a community or AS-path lookup on a NOS of the delimiter table,
\* when the raw text holds the delimiter at least twice, parse returns
\* delimiter + 1st section + delimiter + 2nd section: the text before the
\* first delimiter and everything from the third delimiter on are dropped.
C7_TwoSectionsKept ==
    (Parsed /\ Applicable /\ Cardinality(RawOccurrences) >= 2) =>
        ret = Returned(TwoSections(raw_output, DelimiterTable[device.nos]), status)

C7_Witness ==
    /\ Parsed
    /\ Applicable
    /\ Cardinality(RawOccurrences) >= 3
    /\ Min(RawOccurrences) > 1
    /\ ret.kind = "return"
    /\ Len(ret.text) < Len(raw_output)

\* C8: for an applicable NOS / query type pair, when the raw text holds the
\* delimiter fewer than two times, the normalizer fails with MalformedOutput.
C8_MalformedOutput ==
    (Parsed /\ Applicable /\ Cardinality(RawOccurrences) < 2) =>
        ret = Raised("MalformedOutput")

\* C9: for a query type other than the community and AS-path lookups, and
\* for a NOS that is not in the delimiter table whatever the query type,
\* parse returns the raw text as it is.
C9_PassThrough ==
    (Parsed /\ ~Applicable) => ret = Returned(raw_output, status)

C9_Witness ==
    /\ Parsed
    /\ input_type = "bgp_route"
    /\ device.nos = "cisco_ios"
    /\ Cardinality(Occurrences(raw_output, delimiter_ios)) = 1
    /\ ret = Returned(raw_output, status)

\* C10: when the executor failed (the POST of a REST device raised
\* ConnectTimeout, or, behind a proxy, the bastion session was opened and a
\* later call raised an authentication exception), response() returns
\* (general message, invalid), whatever the query type and the device.
RestConnectTimeout ==
    \E i \in CallsOf("post") : trace[i].raised = "ConnectTimeout"
TargetAuthFailure ==
    /\ ProxiedPath
    /\ \E i \in CallsOf("ConnectHandler") : trace[i].raised = "none"
    /\ \E i \in 1..Len(trace) :
            trace[i].raised \in {"NetMikoAuthenticationException", "NetmikoAuthError"}
C10_FailureSurvivesParse ==
    (pc = "done" /\ (RestConnectTimeout \/ TargetAuthFailure)) =>
        ret = Returned(messages_general, code_invalid)

\* the request runs the direct executor (lines 318-319)
DirectPath == is_scrape(device.nos) /\ device.proxy = NoProxy

\* C18: once direct() is over, it has returned (command output, valid) exactly
\* when the session was opened and the command came back, the text being
\* what send_command returned; it has returned (general message, invalid)
\* when either call raised an authentication or timeout exception; and it
\* has never returned the general message with the valid status.
C18_DirectOutcome ==
    (DirectPath /\ exec_ret # Pending) =>
        LET opened   == \E i \in CallsOf("ConnectHandler") : trace[i].raised = "none"
            answered == \E i \in CallsOf("send_command") : trace[i].raised = "none"
            failed   == \E i \in CallsOf("ConnectHandler") \cup CallsOf("send_command") :
                            trace[i].raised \in NetmikoCaught
        IN  /\ (opened /\ answered) <=>
                (exec_ret.kind = "return" /\ exec_ret.status = code_valid)
            /\ (opened /\ answered) =>
                \E i \in CallsOf("send_command") :
                    exec_ret = Returned(trace[i].result, code_valid)
            /\ failed => exec_ret = Returned(messages_general, code_invalid)
            /\ exec_ret # Returned(messages_general, code_valid)

C18_Witness ==
    /\ DirectPath
    /\ exec_ret = Returned(<<"x">>, code_valid)
    /\ \E i \in CallsOf("send_command") : trace[i].result = <<"x">>

\* C11: an approved request for a device whose NOS is in neither the REST
\* set nor the interactive set never ends with response() returning a pair
\* whose status is the valid status.
C11_UnknownNosReported ==
    (/\ pc = "done"
     /\ validity
     /\ ~is_rest(device.nos)
     /\ ~is_scrape(device.nos))
        => ~(ret.kind = "return" /\ ret.status = code_valid)

\* C12: once transport selection is over for an approved request, exactly
\* one executor family has been chosen (Rest or Netmiko), and for a device
\* with a proxy it is the Netmiko one, never Rest.
C12_OneFamily ==
    (validity /\ pc \notin {"validate", "select"}) =>
        /\ Cardinality(CallsOf("Rest") \cup CallsOf("Netmiko")) = 1
        /\ device.proxy # NoProxy =>
            /\ CallsOf("Rest") = {}
            /\ CallsOf("Netmiko") # {}

\* the sessions ConnectHandler opened and no later disconnect closed
OpenSessions ==
    {i \in CallsOf("ConnectHandler") :
        /\ trace[i].raised = "none"
        /\ ~\E j \in CallsOf("disconnect") : j > i}

\* C16: once direct() or proxied() is over, by return or by exception, no
\* session it opened is still open.
C16_SessionsClosed ==
    exec_ret # Pending => OpenSessions = {}

\* C17: within one request at most one POST is issued, at most one session is
\* opened, never both, the query command is submitted at most once, and
\* after a call that raised the only call still made is parse.
C17_NoRetry ==
    LET posts == CallsOf("post") \cup CallsOf("post_not_awaited")
    IN  /\ Cardinality(posts) <= 1
        /\ Cardinality(CallsOf("ConnectHandler")) <= 1
        /\ Cardinality(CallsOf("send_command")) <= 1
        /\ posts = {} \/ CallsOf("ConnectHandler") = {}
        /\ \A i \in 1..Len(trace) : \A j \in (i + 1)..Len(trace) :
                trace[i].raised # "none" => trace[j].op = "parse"

C17_Witness ==
    /\ pc = "done"
    /\ \E i \in CallsOf("send_command") : trace[i].raised \in NetmikoCaught
    /\ ret = Returned(messages_general, code_invalid)

\* the writes made between the read of line 209 and the redispatch
WritesAfterRead(arg) ==
    {k \in (FirstRead + 1)..Len(trace) :
        trace[k].op = "write_channel" /\ trace[k].arg = arg}
AllWritesAfterRead ==
    {k \in (FirstRead + 1)..Len(trace) : trace[k].op = "write_channel"}

\* C19: "yes" is never written unless the host-key warning was read and the
\* secret never more than once; when the negotiation has reached the
\* redispatch, "yes" was written once iff the warning was read, the secret
\* once iff the warning or "assword" was read (also when both were), and
\* nothing else was written, so nothing at all when neither was read.
C19_ThreeBranches ==
    HasRead =>
        LET key     == Contains(FirstText, key_warning)
            pass    == Contains(FirstText, password_prompt)
            yes     == WritesAfterRead(<<"yes", NL>>)
            secrets == WritesAfterRead(<<device_password, NL>>)
        IN  /\ Cardinality(yes) <= 1
            /\ Cardinality(secrets) <= 1
            /\ yes # {} => key
            /\ secrets # {} => (key \/ pass)
            /\ AllWritesAfterRead = yes \cup secrets
            /\ CallsOf("redispatch") # {} =>
                /\ key <=> Cardinality(yes) = 1
                /\ (key \/ pass) <=> Cardinality(secrets) = 1
                /\ (key /\ secrets # {}) => Min(yes) < Min(secrets)

C19_Witness ==
    /\ HasRead
    /\ Contains(FirstText, key_warning)
    /\ Contains(FirstText, password_prompt)
    /\ CallsOf("redispatch") # {}
    /\ Cardinality(WritesAfterRead(<<device_password, NL>>)) = 1

\* C20: the validator is the first call of a request and is called once;
\* when response() returns for an approved request on a supported device,
\* exactly one executor was built and run, and its text went through parse
\* exactly once, as the last call before the return.
C20_ValidateFirstParseOnce ==
    /\ Len(trace) >= 1 => trace[1].op = "Validate"
    /\ Cardinality(CallsOf("Validate")) = (IF pc = "validate" THEN 0 ELSE 1)
    /\ Cardinality(CallsOf("parse")) <= 1
    /\ (/\ ret.kind = "return"
        /\ validity
        /\ is_rest(device.nos) \/ is_scrape(device.nos)) =>
            /\ Cardinality(CallsOf("Rest") \cup CallsOf("Netmiko")) = 1
            /\ exec_ret.kind = "return"
            /\ CallsOf("parse") = {Len(trace)}
            /\ trace[Len(trace)].arg = exec_ret.text

C20_Witness ==
    /\ ret.kind = "return"
    /\ validity
    /\ is_scrape(device.nos)
    /\ CallsOf("parse") = {Len(trace)}

\* the request is inside direct() or proxied()
InteractiveRunning ==
    pc \in {"direct", "direct_send", "proxied", "proxied_jump", "proxied_settle",
            "key_yes", "key_secret", "password_secret", "password_read",
            "redispatch", "proxied_send"}

\* C13: while a request is inside the interactive or the proxy executor (the
\* settle delay included), a concurrent REST request that is not over can
\* take its next step.
C13_RestNotStalled ==
    (InteractiveRunning /\ other \in {"ready", "awaiting"}) =>
        ENABLED (other_start \/ other_resume)

\* C14: a REST executor reads the text of the response only right after a
\* POST that was awaited and completed.
C14_PostAwaitedBeforeRead ==
    \A i \in CallsOf("response.text") :
        /\ i > 1
        /\ trace[i - 1].op = "post"
        /\ trace[i - 1].raised = "none"
        /\ trace[i].raised = "none"

\* C15: neither the device secret nor the proxy secret is ever in the log.
C15_SecretsNotLogged ==
    /\ device_password \notin log
    /\ device_proxy.password \notin log

====
